---- MODULE Spec2Model ----
(***************************************************************************)
(* Model of triseratops' Container (src/container.rs): six optional tag    *)
(* slots and the read-only queries that reconcile `Serato Markers_` (v1)   *)
(* with `Serato Markers2` (v2).                                            *)
(***************************************************************************)
EXTENDS Integers, Sequences, FiniteSets, TLC

VARIABLES self, ret, first

vars == <<self, ret, first>>

\* ------------------------------------------------------------------------
\* Bounds and input domains
\* ------------------------------------------------------------------------
\* Marker indices range over 0..MaxIndex.
MaxIndex == 1
\* A Markers2 record lists at most MaxLen markers.
MaxLen == 2

Indices == 0..MaxIndex

\* Option<T>: None is the empty sequence, Some(x) the one-element sequence.
None == <<>>
Some(x) == <<x>>

\* The value an Option::unwrap on None stands for: the query unwinds there.
Panic == -1

\* tag::markers::EntryType; "OTHER" stands for every further variant.
EntryTypes == {"INVALID", "CUE", "LOOP", "OTHER"}

\* ------------------------------------------------------------------------
\* std::collections::BTreeMap, as container.rs uses it
\* ------------------------------------------------------------------------
EmptyMap == [k \in {} |-> 0]

BTreeInsert(map, k, v) ==
    [x \in (DOMAIN map) \cup {k} |-> IF x = k THEN v ELSE map[x]]

BTreeRemove(map, k) ==
    [x \in (DOMAIN map) \ {k} |-> map[x]]

RECURSIVE SortedKeys(_)
SortedKeys(S) ==
    IF S = {} THEN <<>>
    ELSE LET k == CHOOSE x \in S : \A y \in S : x <= y
         IN  <<k>> \o SortedKeys(S \ {k})

\* Mutant: the values in descending key order.
BTreeValuesDescending(map) ==
    LET ks == SortedKeys(DOMAIN map)
    IN  [n \in 1..Len(ks) |-> map[ks[Len(ks) + 1 - n]]]

\* map.values().cloned().collect(): the values in ascending key order.
BTreeValues(map) ==
    LET ks == SortedKeys(DOMAIN map)
    IN  [n \in 1..Len(ks) |-> map[ks[n]]]

\* Option::unwrap
Unwrap(x) == IF x = None THEN Panic ELSE x[1]

\* ------------------------------------------------------------------------
\* Accessors of the tag records (tag::Markers, tag::Markers2)
\* ------------------------------------------------------------------------
\* Markers::cues(): the (index, entry) pairs of the v1 record in index order.
MarkersCues(m) ==
    LET ks == SortedKeys(DOMAIN m.entries)
    IN  [n \in 1..Len(ks) |-> <<ks[n], m.entries[ks[n]]>>]

\* Markers::loops(): the (index, entry) pairs of the v1 record in index order.
MarkersLoops(m) ==
    LET ks == SortedKeys(DOMAIN m.entries)
    IN  [n \in 1..Len(ks) |-> <<ks[n], m.entries[ks[n]]>>]

\* Markers::track_color()
MarkersTrackColor(m) == m.track_color

IsCueMarker(x) == x.kind = "Cue"
IsLoopMarker(x) == x.kind = "Loop"

\* tag::markers2::CueMarker
CueMarker(i, p, col, l) ==
    [index |-> i, position_millis |-> p, color |-> col, label |-> l]

\* tag::markers2::LoopMarker
LoopMarker(i, s, e, col, l, lk) ==
    [index |-> i, start_position_millis |-> s, end_position_millis |-> e,
     color |-> col, label |-> l, is_locked |-> lk]

\* Markers2::cues(): the record's cue markers, in the order the record lists them.
Markers2Cues(m) ==
    LET cs == SelectSeq(m.markers, IsCueMarker)
    IN  [n \in 1..Len(cs) |->
            CueMarker(cs[n].index, cs[n].position_millis, cs[n].color, cs[n].label)]

\* Markers2::loops(): the record's loop markers, in the order the record lists them.
Markers2Loops(m) ==
    LET ls == SelectSeq(m.markers, IsLoopMarker)
    IN  [n \in 1..Len(ls) |->
            LoopMarker(ls[n].index, ls[n].start_position_millis,
                       ls[n].end_position_millis, ls[n].color, ls[n].label,
                       ls[n].is_locked)]

\* Markers2::track_color()
Markers2TrackColor(m) == m.track_color

\* Markers2::bpm_locked()
Markers2BpmLocked(m) == m.bpm_locked

\* ------------------------------------------------------------------------
\* Container queries
\* ------------------------------------------------------------------------
\* Container::new
NewContainer ==
    [analysis |-> None, autotags |-> None, beatgrid |-> None,
     markers |-> None, markers2 |-> None, overview |-> None]

auto_gain(c) == IF c.autotags # None THEN Some(c.autotags[1].auto_gain) ELSE None

gain_db(c) == IF c.autotags # None THEN Some(c.autotags[1].gain_db) ELSE None

beatgrid(c) ==
    IF c.beatgrid # None
    THEN Some(<<c.beatgrid[1].non_terminal_markers, c.beatgrid[1].terminal_marker>>)
    ELSE None

bpm_locked(c) == IF c.markers2 # None THEN Markers2BpmLocked(c.markers2[1]) ELSE None

overview(c) == IF c.overview # None THEN Some(c.overview[1].data) ELSE None

\* `for x in list { map.insert(x.index, x) }`
RECURSIVE SeedMap(_, _)
SeedMap(map, list) ==
    IF list = <<>> THEN map
    ELSE SeedMap(BTreeInsert(map, Head(list).index, Head(list)), Tail(list))

\* Mutant: the merged cue keeps the v2 color.
MergeCueKeepsV2Color(map, index, marker) ==
    CASE marker.entry_type = "INVALID" -> BTreeRemove(map, index)
      [] marker.entry_type = "CUE" ->
            IF marker.start_position_millis = None
            THEN BTreeRemove(map, index)
            ELSE IF index \in DOMAIN map
                 THEN BTreeInsert(BTreeRemove(map, index), index,
                          CueMarker(index, Unwrap(marker.start_position_millis),
                                    map[index].color, map[index].label))
                 ELSE map
      [] OTHER -> map

\* Mutant: an INVALID entry is ignored instead of removing its index.
MergeCueKeepsInvalid(map, index, marker) ==
    CASE marker.entry_type = "CUE" ->
            IF marker.start_position_millis = None
            THEN BTreeRemove(map, index)
            ELSE IF index \in DOMAIN map
                 THEN BTreeInsert(BTreeRemove(map, index), index,
                          CueMarker(index, Unwrap(marker.start_position_millis),
                                    marker.color, map[index].label))
                 ELSE map
      [] OTHER -> map

\* The body of the loop over Markers::cues() in Container::cues.
MergeCue(map, index, marker) ==
    CASE marker.entry_type = "INVALID" -> BTreeRemove(map, index)
      [] marker.entry_type = "CUE" ->
            IF marker.start_position_millis = None
            THEN BTreeRemove(map, index)
            ELSE IF index \in DOMAIN map
                 THEN BTreeInsert(BTreeRemove(map, index), index,
                          CueMarker(index, Unwrap(marker.start_position_millis),
                                    marker.color, map[index].label))
                 ELSE map
      [] OTHER -> map

RECURSIVE MergeCues(_, _)
MergeCues(map, pairs) ==
    IF pairs = <<>> THEN map
    ELSE MergeCues(MergeCue(map, Head(pairs)[1], Head(pairs)[2]), Tail(pairs))

\* Mutant: without a v1 record there are no cues.
cuesNeedMarkers(c) ==
    IF c.markers = None \/ c.markers2 = None THEN <<>>
    ELSE BTreeValues(MergeCues(SeedMap(EmptyMap, Markers2Cues(c.markers2[1])),
                               MarkersCues(c.markers[1])))

cues(c) ==
    LET seeded == IF c.markers2 # None
                  THEN SeedMap(EmptyMap, Markers2Cues(c.markers2[1]))
                  ELSE EmptyMap
        merged == IF c.markers # None
                  THEN MergeCues(seeded, MarkersCues(c.markers[1]))
                  ELSE seeded
    IN  BTreeValues(merged)

\* Mutant: a loop is malformed only when both times are absent.
MergeLoopChecksBoth(map, index, marker) ==
    IF marker.entry_type # "LOOP" THEN map
    ELSE IF marker.start_position_millis = None /\ marker.end_position_millis = None
    THEN BTreeRemove(map, index)
    ELSE IF index \in DOMAIN map
    THEN BTreeInsert(BTreeRemove(map, index), index,
             LoopMarker(index, Unwrap(marker.start_position_millis),
                        Unwrap(marker.end_position_millis), marker.color,
                        map[index].label, marker.is_locked))
    ELSE map

\* Mutant: a valid v1 loop is inserted whether or not v2 knows its index.
MergeLoopInsertsV1Only(map, index, marker) ==
    IF marker.entry_type # "LOOP" THEN map
    ELSE IF marker.start_position_millis = None \/ marker.end_position_millis = None
    THEN BTreeRemove(map, index)
    ELSE BTreeInsert(BTreeRemove(map, index), index,
             LoopMarker(index, Unwrap(marker.start_position_millis),
                        Unwrap(marker.end_position_millis), marker.color,
                        IF index \in DOMAIN map THEN map[index].label ELSE "",
                        marker.is_locked))

\* Mutant: the merged loop keeps the v2 lock flag.
MergeLoopKeepsV2Lock(map, index, marker) ==
    IF marker.entry_type # "LOOP" THEN map
    ELSE IF marker.start_position_millis = None \/ marker.end_position_millis = None
    THEN BTreeRemove(map, index)
    ELSE IF index \in DOMAIN map
    THEN BTreeInsert(BTreeRemove(map, index), index,
             LoopMarker(index, Unwrap(marker.start_position_millis),
                        Unwrap(marker.end_position_millis), marker.color,
                        map[index].label, map[index].is_locked))
    ELSE map

\* Mutant: an INVALID entry removes the loop of its index, as it does a cue.
MergeLoopRemovesInvalid(map, index, marker) ==
    IF marker.entry_type = "INVALID" THEN BTreeRemove(map, index)
    ELSE IF marker.entry_type # "LOOP" THEN map
    ELSE IF marker.start_position_millis = None \/ marker.end_position_millis = None
    THEN BTreeRemove(map, index)
    ELSE IF index \in DOMAIN map
    THEN BTreeInsert(BTreeRemove(map, index), index,
             LoopMarker(index, Unwrap(marker.start_position_millis),
                        Unwrap(marker.end_position_millis), marker.color,
                        map[index].label, marker.is_locked))
    ELSE map

\* The body of the loop over Markers::loops() in Container::loops.
MergeLoop(map, index, marker) ==
    IF marker.entry_type # "LOOP" THEN map
    ELSE IF marker.start_position_millis = None \/ marker.end_position_millis = None
    THEN BTreeRemove(map, index)
    ELSE IF index \in DOMAIN map
    THEN BTreeInsert(BTreeRemove(map, index), index,
             LoopMarker(index, Unwrap(marker.start_position_millis),
                        Unwrap(marker.end_position_millis), marker.color,
                        map[index].label, marker.is_locked))
    ELSE map

RECURSIVE MergeLoops(_, _)
MergeLoops(map, pairs) ==
    IF pairs = <<>> THEN map
    ELSE MergeLoops(MergeLoop(map, Head(pairs)[1], Head(pairs)[2]), Tail(pairs))

loops(c) ==
    LET seeded == IF c.markers2 # None
                  THEN SeedMap(EmptyMap, Markers2Loops(c.markers2[1]))
                  ELSE EmptyMap
        merged == IF c.markers # None
                  THEN MergeLoops(seeded, MarkersLoops(c.markers[1]))
                  ELSE seeded
    IN  BTreeValues(merged)

\* Mutant: the v2 color wins when both records carry one.
track_colorPrefersV2(c) ==
    LET fromV1 == IF c.markers # None THEN Some(MarkersTrackColor(c.markers[1])) ELSE None
    IN  IF c.markers2 # None /\ Markers2TrackColor(c.markers2[1]) # None
        THEN Markers2TrackColor(c.markers2[1])
        ELSE fromV1

track_color(c) ==
    LET fromV2 == IF c.markers2 # None THEN Markers2TrackColor(c.markers2[1]) ELSE None
    IN  IF c.markers # None THEN Some(MarkersTrackColor(c.markers[1])) ELSE fromV2

\* ------------------------------------------------------------------------
\* Tag records handed to the container
\* ------------------------------------------------------------------------
\* tag::markers::Marker
Entry(t, s, e, col, lk) ==
    [entry_type |-> t, start_position_millis |-> s, end_position_millis |-> e,
     color |-> col, is_locked |-> lk]

\* One v1 entry for each path through the reconciliation loops.
V1Entries ==
    {Entry("INVALID", None, None, "red", FALSE),
     Entry("CUE", None, None, "red", FALSE),
     Entry("CUE", Some(1200), None, "red", FALSE),
     Entry("LOOP", None, Some(2400), "red", TRUE),
     Entry("LOOP", Some(1200), None, "red", TRUE),
     Entry("LOOP", Some(1200), Some(2400), "red", TRUE),
     Entry("OTHER", Some(1200), Some(2400), "red", FALSE)}

\* The v1 record's entries: an ordered mapping from index to entry.
V1Maps == UNION {[D -> V1Entries] : D \in SUBSET Indices}

V2Colors == <<"blue", "green", "yellow", "purple">>
V2Labels == <<"Intro", "", "Drop", "Outro">>

\* The n-th marker a v2 record lists carries data that tells it from the
\* others, so that two markers of one index are distinguishable.
V2CueAt(n, i) ==
    [kind |-> "Cue", index |-> i, position_millis |-> 1000 * n,
     color |-> V2Colors[((n - 1) % 4) + 1], label |-> V2Labels[((n - 1) % 4) + 1]]

V2LoopAt(n, i) ==
    [kind |-> "Loop", index |-> i, start_position_millis |-> 1000 * n,
     end_position_millis |-> 1000 * n + 500,
     color |-> V2Colors[((n - 1) % 4) + 1], label |-> V2Labels[((n - 1) % 4) + 1],
     is_locked |-> (n % 2 = 0)]

\* The v2 record's markers: cues and loops in any order, an index possibly
\* more than once.
V2Lists ==
    UNION {{[n \in 1..len |-> IF k[n][1] = "Cue" THEN V2CueAt(n, k[n][2])
                                                   ELSE V2LoopAt(n, k[n][2])] :
               k \in [1..len -> {"Cue", "Loop"} \X Indices]} : len \in 0..MaxLen}

Colors == {"red", "blue", "green"}

\* Records that exercise the cue and loop reconciliation.
MarkerRecords == {[entries |-> e, track_color |-> "red"] : e \in V1Maps}

Markers2Records ==
    {[markers |-> l, track_color |-> Some("blue"), bpm_locked |-> None] : l \in V2Lists}

\* Records that exercise the track color and the BPM lock.
ColorMarkerRecords == {[entries |-> EmptyMap, track_color |-> c] : c \in Colors}

ColorMarkers2Records ==
    {[markers |-> <<>>, track_color |-> t, bpm_locked |-> b] :
        t \in {None} \cup {Some(c) : c \in Colors},
        b \in {None, Some(TRUE), Some(FALSE)}}

\* One record of each kind for the runs that exercise every slot and query.
SampleAnalysis == {[version |-> "analysis"]}

SampleAutotags == {[auto_gain |-> "0.5", gain_db |-> "-3.0"]}

SampleBeatgrid ==
    {[non_terminal_markers |-> <<"beat 1", "beat 2">>, terminal_marker |-> "beat 3"]}

SampleOverview == {[data |-> <<<<1, 2>>, <<3, 4>>>>]}

SampleMarkers ==
    {[entries |-> (0 :> Entry("CUE", Some(1200), None, "red", FALSE)),
      track_color |-> "red"],
     [entries |-> (0 :> Entry("LOOP", Some(1200), Some(2400), "red", TRUE)),
      track_color |-> "green"]}

SampleMarkers2 ==
    {[markers |-> <<V2CueAt(1, 0), V2LoopAt(2, 0)>>, track_color |-> Some("blue"),
      bpm_locked |-> Some(TRUE)],
     [markers |-> <<V2LoopAt(1, 0)>>, track_color |-> None, bpm_locked |-> None]}

\* ------------------------------------------------------------------------
\* The container as a state machine
\* ------------------------------------------------------------------------
Queries ==
    {"auto_gain", "gain_db", "beatgrid", "bpm_locked", "cues", "loops",
     "track_color", "overview"}

\* No query was called since the last slot assignment.
NoResults == [q \in Queries |-> None]

Init ==
    /\ self = NewContainer
    /\ ret = NoResults
    /\ first = NoResults

\* A provider assigns a slot one of `records`. A slot is populated at most
\* once; the results on record are of the old slots.
SetAnalysis(records) ==
    /\ self.analysis = None
    /\ \E a \in records : self' = [self EXCEPT !.analysis = Some(a)]
    /\ ret' = NoResults
    /\ first' = NoResults

SetAutotags(records) ==
    /\ self.autotags = None
    /\ \E a \in records : self' = [self EXCEPT !.autotags = Some(a)]
    /\ ret' = NoResults
    /\ first' = NoResults

SetBeatgrid(records) ==
    /\ self.beatgrid = None
    /\ \E b \in records : self' = [self EXCEPT !.beatgrid = Some(b)]
    /\ ret' = NoResults
    /\ first' = NoResults

SetOverview(records) ==
    /\ self.overview = None
    /\ \E o \in records : self' = [self EXCEPT !.overview = Some(o)]
    /\ ret' = NoResults
    /\ first' = NoResults

SetMarkers(records) ==
    /\ self.markers = None
    /\ \E m \in records : self' = [self EXCEPT !.markers = Some(m)]
    /\ ret' = NoResults
    /\ first' = NoResults

SetMarkers2(records) ==
    /\ self.markers2 = None
    /\ \E m \in records : self' = [self EXCEPT !.markers2 = Some(m)]
    /\ ret' = NoResults
    /\ first' = NoResults

\* A query returns v: ret holds each query's latest result, first its first
\* result since the slots were last assigned.
Returns(q, v) ==
    /\ ret' = [ret EXCEPT ![q] = Some(v)]
    /\ first' = [first EXCEPT ![q] = IF @ = None THEN Some(v) ELSE @]

CallAutoGain ==
    /\ Returns("auto_gain", auto_gain(self))
    /\ self' = self

CallGainDb ==
    /\ Returns("gain_db", gain_db(self))
    /\ self' = self

CallBeatgrid ==
    /\ Returns("beatgrid", beatgrid(self))
    /\ self' = self

CallOverview ==
    /\ Returns("overview", overview(self))
    /\ self' = self

\* Mutant: the query takes the v2 record out of its slot.
CallCuesTakesMarkers2 ==
    /\ Returns("cues", cues(self))
    /\ self' = [self EXCEPT !.markers2 = None]

CallCues ==
    /\ Returns("cues", cues(self))
    /\ self' = self

CallLoops ==
    /\ Returns("loops", loops(self))
    /\ self' = self

CallTrackColor ==
    /\ Returns("track_color", track_color(self))
    /\ self' = self

CallBpmLocked ==
    /\ Returns("bpm_locked", bpm_locked(self))
    /\ self' = self

NextMarkers ==
    \/ SetMarkers(MarkerRecords)
    \/ SetMarkers2(Markers2Records)
    \/ CallCues
    \/ CallLoops

SpecMarkers == Init /\ [][NextMarkers]_vars

NextColor ==
    \/ SetMarkers(ColorMarkerRecords)
    \/ SetMarkers2(ColorMarkers2Records)
    \/ CallTrackColor
    \/ CallBpmLocked

SpecColor == Init /\ [][NextColor]_vars

Next ==
    \/ SetAnalysis(SampleAnalysis)
    \/ SetAutotags(SampleAutotags)
    \/ SetBeatgrid(SampleBeatgrid)
    \/ SetMarkers(SampleMarkers)
    \/ SetMarkers2(SampleMarkers2)
    \/ SetOverview(SampleOverview)
    \/ CallAutoGain
    \/ CallGainDb
    \/ CallBeatgrid
    \/ CallBpmLocked
    \/ CallCues
    \/ CallLoops
    \/ CallTrackColor
    \/ CallOverview

Spec == Init /\ [][Next]_vars

\* ------------------------------------------------------------------------
\* Properties
\* ------------------------------------------------------------------------
Called(q) == ret[q] # None
Result(q) == ret[q][1]

\* What the slots hold, read off the records themselves.
HasV1Entry(i) == self.markers # None /\ i \in DOMAIN self.markers[1].entries
V1Entry(i) == self.markers[1].entries[i]
V2CueList == IF self.markers2 = None THEN <<>> ELSE Markers2Cues(self.markers2[1])
V2LoopList == IF self.markers2 = None THEN <<>> ELSE Markers2Loops(self.markers2[1])

IndicesOf(list) == {list[n].index : n \in 1..Len(list)}
Elements(list) == {list[n] : n \in 1..Len(list)}
AtIndex(list, i) == {x \in Elements(list) : x.index = i}
\* The marker a record defines at index i: the last one it lists there.
Defined(list, i) ==
    list[CHOOSE n \in 1..Len(list) :
            /\ list[n].index = i
            /\ \A k \in (n + 1)..Len(list) : list[k].index # i]
StrictlyAscending(list) ==
    \A n \in 1..Len(list), k \in 1..Len(list) : n < k => list[n].index < list[k].index

ValidV1Cue(i) ==
    /\ HasV1Entry(i)
    /\ V1Entry(i).entry_type = "CUE"
    /\ V1Entry(i).start_position_millis # None
ValidV1Loop(i) ==
    /\ HasV1Entry(i)
    /\ V1Entry(i).entry_type = "LOOP"
    /\ V1Entry(i).start_position_millis # None
    /\ V1Entry(i).end_position_millis # None
MalformedV1Cue(i) ==
    /\ HasV1Entry(i)
    /\ V1Entry(i).entry_type = "CUE"
    /\ V1Entry(i).start_position_millis = None
MalformedV1Loop(i) ==
    /\ HasV1Entry(i)
    /\ V1Entry(i).entry_type = "LOOP"
    /\ (V1Entry(i).start_position_millis = None \/ V1Entry(i).end_position_millis = None)

\* C1: for every index with a v2 cue and a v1 CUE entry that has a start time,
\* cues() returns at that index exactly one cue, with the v1 start time as
\* position, the v1 color, and the v2 cue's label.
C1_CueMergedFromV1 ==
    Called("cues") =>
        \A i \in Indices :
            (i \in IndicesOf(V2CueList) /\ ValidV1Cue(i)) =>
                AtIndex(Result("cues"), i) =
                    {CueMarker(i, V1Entry(i).start_position_millis[1],
                               V1Entry(i).color, Defined(V2CueList, i).label)}

C1_Witness ==
    /\ Called("cues")
    /\ \E i \in Indices : i \in IndicesOf(V2CueList) /\ ValidV1Cue(i)

\* C2: cues() returns no cue at an index whose v1 entry is INVALID, whether or
\* not v2 defines a cue there.
C2_InvalidRemovesCue ==
    Called("cues") =>
        \A i \in Indices :
            (HasV1Entry(i) /\ V1Entry(i).entry_type = "INVALID") =>
                i \notin IndicesOf(Result("cues"))

C2_Witness ==
    /\ Called("cues")
    /\ \E i \in Indices :
        /\ HasV1Entry(i) /\ V1Entry(i).entry_type = "INVALID"
        /\ i \in IndicesOf(V2CueList)

\* C3: a malformed v1 entry does not make the query unwind and drops its index:
\* cues() has no cue at the index of a v1 CUE entry without start time, loops()
\* has no loop at the index of a v1 LOOP entry without start or end time, and
\* no returned marker carries the value of a failed unwrap.
C3_MalformedDropped ==
    /\ Called("cues") =>
        /\ \A x \in Elements(Result("cues")) : x.position_millis # Panic
        /\ \A i \in Indices : MalformedV1Cue(i) => i \notin IndicesOf(Result("cues"))
    /\ Called("loops") =>
        /\ \A x \in Elements(Result("loops")) :
              x.start_position_millis # Panic /\ x.end_position_millis # Panic
        /\ \A i \in Indices : MalformedV1Loop(i) => i \notin IndicesOf(Result("loops"))

C3_Witness ==
    /\ Called("cues")
    /\ Called("loops")
    /\ \E i \in Indices : MalformedV1Cue(i) /\ i \in IndicesOf(V2CueList)
    /\ \E i \in Indices :
        /\ MalformedV1Loop(i)
        /\ V1Entry(i).start_position_millis # None
        /\ i \in IndicesOf(V2LoopList)

\* C4: for every index with a v2 cue and no v1 entry (the v1 slot may be
\* absent), cues() returns at that index exactly the v2 cue, unchanged.
C4_V2OnlyCueUnchanged ==
    Called("cues") =>
        \A i \in Indices :
            (i \in IndicesOf(V2CueList) /\ ~HasV1Entry(i)) =>
                AtIndex(Result("cues"), i) = {Defined(V2CueList, i)}

C4_Witness ==
    /\ Called("cues")
    /\ self.markers = None
    /\ V2CueList # <<>>

\* C5: the indices cues() and loops() return are indices of v2 cues and of v2
\* loops: a valid v1 CUE or LOOP entry at an index v2 does not define adds
\* nothing, and without a v2 record both lists are empty.
C5_OnlyV2Indices ==
    /\ Called("cues") =>
        /\ IndicesOf(Result("cues")) \subseteq IndicesOf(V2CueList)
        /\ self.markers2 = None => Result("cues") = <<>>
    /\ Called("loops") =>
        /\ IndicesOf(Result("loops")) \subseteq IndicesOf(V2LoopList)
        /\ self.markers2 = None => Result("loops") = <<>>

C5_Witness ==
    /\ Called("cues")
    /\ Called("loops")
    /\ \E i \in Indices : ValidV1Cue(i) /\ i \notin IndicesOf(V2CueList)
    /\ \E i \in Indices : ValidV1Loop(i) /\ i \notin IndicesOf(V2LoopList)

\* C6: the lists cues() and loops() return are strictly ascending by index,
\* also when v2 lists its markers out of order or lists an index twice.
C6_StrictlyAscending ==
    /\ Called("cues") => StrictlyAscending(Result("cues"))
    /\ Called("loops") => StrictlyAscending(Result("loops"))

C6_Witness ==
    /\ Called("cues")
    /\ Len(Result("cues")) = 2
    /\ V2CueList[1].index > V2CueList[2].index

\* C7: track_color() returns the v1 color when the v1 slot is present, else
\* the v2 color when the v2 record has one, else absent.
C7_TrackColorV1Wins ==
    Called("track_color") =>
        LET v2color == IF self.markers2 = None THEN None
                       ELSE self.markers2[1].track_color
        IN  /\ (self.markers = None /\ v2color # None) =>
                    Result("track_color") = v2color
            /\ (self.markers # None /\ v2color = None) =>
                    Result("track_color") = Some(self.markers[1].track_color)
            /\ (self.markers # None /\ v2color # None) =>
                    Result("track_color") = Some(self.markers[1].track_color)
            /\ (self.markers = None /\ v2color = None) =>
                    Result("track_color") = None

C7_Witness ==
    /\ Called("track_color")
    /\ self.markers # None
    /\ self.markers2 # None
    /\ self.markers2[1].track_color # None
    /\ self.markers2[1].track_color # Some(self.markers[1].track_color)

\* C8: for every index with a v2 loop and a v1 LOOP entry that has both times,
\* loops() returns at that index exactly one loop, with the v1 start, end,
\* color and lock flag, and the v2 loop's label.
C8_LoopMergedFromV1 ==
    Called("loops") =>
        \A i \in Indices :
            (i \in IndicesOf(V2LoopList) /\ ValidV1Loop(i)) =>
                AtIndex(Result("loops"), i) =
                    {LoopMarker(i, V1Entry(i).start_position_millis[1],
                                V1Entry(i).end_position_millis[1], V1Entry(i).color,
                                Defined(V2LoopList, i).label, V1Entry(i).is_locked)}

C8_Witness ==
    /\ Called("loops")
    /\ \E i \in Indices :
        /\ i \in IndicesOf(V2LoopList)
        /\ ValidV1Loop(i)
        /\ Defined(V2LoopList, i).is_locked # V1Entry(i).is_locked

\* C9: a query leaves the six slots as they are, and each query's latest
\* result equals its first result since the slots were last assigned.
C9_QueriesReadOnly ==
    [][ret' # NoResults =>
          /\ self' = self
          /\ \A q \in Queries : ret'[q] = first'[q]]_vars

C9_Witness ==
    /\ \A q \in Queries : Called(q)
    /\ Result("cues") # <<>>
    /\ Result("loops") # <<>>

\* C10: loops() returns the v2 loop unchanged at every index whose v1 entry is
\* not of kind LOOP (INVALID included), and cues() returns the v2 cue unchanged
\* at every index whose v1 entry is neither INVALID nor CUE.
C10_OtherKindsIgnored ==
    /\ Called("loops") =>
        \A i \in Indices :
            (HasV1Entry(i) /\ V1Entry(i).entry_type # "LOOP"
                /\ i \in IndicesOf(V2LoopList)) =>
                AtIndex(Result("loops"), i) = {Defined(V2LoopList, i)}
    /\ Called("cues") =>
        \A i \in Indices :
            (HasV1Entry(i) /\ V1Entry(i).entry_type \notin {"INVALID", "CUE"}
                /\ i \in IndicesOf(V2CueList)) =>
                AtIndex(Result("cues"), i) = {Defined(V2CueList, i)}

C10_Witness ==
    /\ Called("loops")
    /\ Called("cues")
    /\ \E i \in Indices :
        /\ HasV1Entry(i) /\ V1Entry(i).entry_type = "INVALID"
        /\ i \in IndicesOf(V2LoopList)
    /\ \E i \in Indices :
        /\ HasV1Entry(i) /\ V1Entry(i).entry_type \in {"LOOP", "OTHER"}
        /\ i \in IndicesOf(V2CueList)

====
